---- MODULE Spec2Model ----
(***************************************************************************)
(* The two Cloud Functions of gcp-cloud-cost-optimizer as one state        *)
(* machine: cost_analyzer/main.py (the reporting path) and                 *)
(* idle_shutdown/main.py (the shutdown path).                              *)
(*                                                                         *)
(* Numbers.  Python floats are modelled by exact arithmetic:               *)
(*   - a CPU utilisation (a fraction in [0,1]) is a rational [n, d] in     *)
(*     units of 1e-5, so 0.05 is [n |-> 5000, d |-> 1];                    *)
(*   - a percentage rounded to 2 places is an integer of hundredths;       *)
(*   - a cost is an integer of 1e-5 dollars, a cost rounded to 4 places    *)
(*     an integer of 1e-4 dollars.                                         *)
(* Remote calls are nondeterministic: each action draws the outcome of     *)
(* the call it makes from a bounded set of outcomes.                       *)
(***************************************************************************)
EXTENDS Integers, Sequences, FiniteSets, TLC

VARIABLES
    path,              \* which function runs: "report" or "shutdown"
    cpu_threshold,     \* CPU_THRESHOLD, in percent
    dry_run,           \* DRY_RUN
    pc,                \* position in main
    zones,             \* the list walked by "for zone in zones"
    zi,                \* position of that loop (1-based)
    zone,              \* loop variable
    resp,              \* resp["items"] of the last successful listing
    vi,                \* position of "for vm in resp['items']"
    vm,                \* loop variable
    billing_map,       \* reporting path
    cost,              \* reporting path, local
    total_cost,        \* reporting path, running total
    cpu_avg_1h,        \* reporting path, local
    cpu_avg_12h,       \* both paths, local
    instances_report,  \* reporting path
    actions,           \* shutdown path
    send_result,       \* reporting path
    response,          \* what main returned
    zones_failed,      \* log: the zone enumeration raised
    billing_failed,    \* log: the billing query raised
    list_log,          \* log: every instances().list call and its outcome
    queries,           \* log: every metrics query of the shutdown path
    stop_calls,        \* log: every instances().stop call and its outcome
    last_query,        \* log: outcome class of the last 12h metrics query
    monitoring,        \* world: the metrics service, "up" or "down"
    billing_export,    \* world: the billing export, "up" or "down"
    mail,              \* world: the mail gateway, "up" or "down"
    fleet              \* world: how many instances the project holds at most

vars == <<path, cpu_threshold, dry_run, pc, zones, zi, zone, resp, vi, vm,
          billing_map, cost, total_cost, cpu_avg_1h, cpu_avg_12h,
          instances_report, actions, send_result, response, zones_failed,
          billing_failed, list_log, queries, stop_calls, last_query,
          monitoring, billing_export, mail, fleet>>

\* the remote services stay as they are for the whole run
world == <<monitoring, billing_export, mail, fleet>>

(***************************************************************************)
(* Bounds of the model.                                                    *)
(***************************************************************************)
\* instances discovered in one run, over all zones
MaxFleet == 2
\* points returned by one metrics query
MaxPoints == 2
\* rows returned by the billing query
MaxRows == 2

(***************************************************************************)
(* Python helpers.                                                         *)
(***************************************************************************)
None == "<None>"

EmptyDict == [k \in {} |-> None]

\* dict.get(key, default)
Get(d, key, default) == IF key \in DOMAIN d THEN d[key] ELSE default

Last(s) == s[Len(s)]

RECURSIVE SumSeq(_)
SumSeq(s) == IF s = <<>> THEN 0 ELSE s[1] + SumSeq(Tail(s))

RECURSIVE GCD(_, _)
GCD(a, b) == IF b = 0 THEN a ELSE GCD(b, a % b)

\* the rational n/d in lowest terms
Ratio(n, d) == LET g == GCD(n, d) IN [n |-> n \div g, d |-> d \div g]

Zero == [n |-> 0, d |-> 1]

\* round(): n/d to the nearest integer, a tie to the even neighbour
RoundHalfEven(n, d) ==
    LET q == n \div d
        r == n % d
    IN  IF 2 * r < d THEN q
        ELSE IF 2 * r > d THEN q + 1
        ELSE IF q % 2 = 0 THEN q ELSE q + 1

\* round(cpu * 100, 2) and f"{cpu_pct:.2f}": hundredths of a percent
Pct2(avg) == RoundHalfEven(avg.n, avg.d * 10)

\* round(cost, 4): units of 1e-4 dollars
Round4(c) == RoundHalfEven(c, 10)

\* cpu * 100 < cpu_threshold, on the unrounded value
BelowThreshold(avg, threshold) == avg.n < threshold * 1000 * avg.d

(***************************************************************************)
(* The world the functions talk to: the inventory, the metrics service,    *)
(* the billing export, the mail gateway.                                   *)
(***************************************************************************)
DefaultZone == "us-central1-a"

ZoneNames == {"us-central1-a", "europe-west1-b"}

\* Instance resources as instances().list returns them.  A key the API
\* leaves out of the resource is left out of the record.  machineType is
\* the resource path, as its "/"-separated segments.
VMs ==
    { [name |-> "web-1", labels |-> [k \in {"auto-shutdown"} |-> "true"],
       machineType |-> <<"zones", "us-central1-a", "machineTypes", "e2-medium">>,
       status |-> "RUNNING"],
      [name |-> "web-2", labels |-> [k \in {"auto-shutdown"} |-> "true"],
       machineType |-> <<"machineTypes", "c2-standard-8">>,
       status |-> "TERMINATED"],
      [name |-> "db-1"],
      [name |-> "db-2", labels |-> [k \in {"auto-shutdown"} |-> "True"],
       machineType |-> <<"e2-micro">>, status |-> "RUNNING"] }

VMNames == {v.name : v \in VMs}

\* sequences over S, at most n long
SeqsUpTo(S, n) == UNION {[1..k -> S] : k \in 0..n}

\* sequences over S in which nothing occurs twice
SeqsNoDup(S) ==
    {s \in SeqsUpTo(S, Cardinality(S)) :
        \A i, j \in 1..Len(s) : i < j => s[i] # s[j]}

\* zones().list: raises, answers without "items", or lists zones
ZoneOutcomes ==
    {[kind |-> "fail", items |-> <<>>], [kind |-> "noitems", items |-> <<>>]}
    \cup {[kind |-> "items", items |-> s] :
            s \in SeqsNoDup(ZoneNames)}

\* a zone's listing holds each instance name once
DistinctNames(s) == \A i, j \in 1..Len(s) : i < j => s[i].name # s[j].name

\* instances().list: raises, answers without "items", or lists at most n
ListOutcomes(n) ==
    {[kind |-> "fail", items |-> <<>>], [kind |-> "noitems", items |-> <<>>]}
    \cup {[kind |-> "items", items |-> s] :
            s \in {t \in SeqsUpTo(VMs, n) : DistinctNames(t)}}

\* one point of a time series: p.value may carry no double_value
PointValues == {4996, 5004}

Points ==
    {[has |-> FALSE, double_value |-> 0]}
    \cup {[has |-> TRUE, double_value |-> v] : v \in PointValues}

\* list_time_series: raises, or yields the points of all series
MetricOutcomes ==
    {[ok |-> FALSE, points |-> <<>>]}
    \cup {[ok |-> TRUE, points |-> s] : s \in SeqsUpTo(Points, MaxPoints)}

\* a service that is down raises on every call; one that is up may still
\* raise on any single call
MetricOutcomesOf(service) ==
    IF service = "down" THEN {[ok |-> FALSE, points |-> <<>>]} ELSE MetricOutcomes

\* rows of the billing query; instance_name is NULL when the regexp fails
BilledNames == {"web-1", "db-1", None}

BilledCosts == {0, 6}

BillingRows == [instance_name : BilledNames, cost_24h : BilledCosts]

BillingOutcomes ==
    {[ok |-> FALSE, rows |-> <<>>]}
    \cup {[ok |-> TRUE, rows |-> s] : s \in SeqsUpTo(BillingRows, MaxRows)}

BillingOutcomesOf(service) ==
    IF service = "down" THEN {[ok |-> FALSE, rows |-> <<>>]} ELSE BillingOutcomes

\* the mail configuration and what requests.post does
SendOutcomes ==
    {[configured |-> FALSE, raised |-> FALSE, status_code |-> 0],
     [configured |-> TRUE, raised |-> TRUE, status_code |-> 0],
     [configured |-> TRUE, raised |-> FALSE, status_code |-> 202],
     [configured |-> TRUE, raised |-> FALSE, status_code |-> 401]}

SendOutcomesOf(service) ==
    IF service = "down"
    THEN {[configured |-> TRUE, raised |-> TRUE, status_code |-> 0]}
    ELSE SendOutcomes

Thresholds == {0, 5}

\* The worlds a run is checked in: <<monitoring, billing_export, mail, fleet>>.
\* The reporting path runs over a fleet of up to MaxFleet instances with one
\* of its three services up and the other two down, and over a smaller fleet
\* with all three up; the shutdown path uses the metrics service only.
Worlds(p) ==
    IF p = "report"
    THEN {<<"up", "down", "down", MaxFleet>>, <<"down", "up", "down", MaxFleet>>,
          <<"down", "down", "up", MaxFleet>>, <<"up", "up", "up", MaxFleet - 1>>}
    ELSE {<<"up", "down", "down", MaxFleet>>}

(***************************************************************************)
(* cost_analyzer/main.py                                                   *)
(***************************************************************************)
\* the dict comprehension of query_billing: rows with a falsy name are
\* dropped, and of two rows with one name the later one stays
RowsToDict(rows) ==
    LET named == {i \in 1..Len(rows) : rows[i].instance_name # None}
        lastOf(nm) == CHOOSE i \in named :
                        /\ rows[i].instance_name = nm
                        /\ \A j \in named : rows[j].instance_name = nm => j <= i
    IN  [nm \in {rows[i].instance_name : i \in named} |-> rows[lastOf(nm)].cost_24h]

\* the same query without its try/except
query_billing_unguarded(out) ==
    [exc |-> ~out.ok, val |-> RowsToDict(out.rows)]

\* query_billing: exc says whether the call raises into main
query_billing(out) ==
    [exc |-> FALSE, val |-> IF out.ok THEN RowsToDict(out.rows) ELSE EmptyDict]

\* the double_value of every point that has one
PointVals(points) ==
    LET kept == SelectSeq(points, LAMBDA p : p.has)
    IN  [i \in 1..Len(kept) |-> kept[i].double_value]

\* get_cpu_avg: the mean of all points, 0.0 without points or on failure
get_cpu_avg(out) ==
    IF ~out.ok THEN Zero
    ELSE LET vals == PointVals(out.points)
         IN  IF vals = <<>> THEN Zero ELSE Ratio(SumSeq(vals), Len(vals))

\* hourly rates, in 1e-5 dollars
mapping ==
    [mt \in {"e2-micro", "e2-small", "e2-medium", "n1-standard-1",
             "n1-standard-2", "e2-standard-4", "e2-standard-2"} |->
        CASE mt = "e2-micro" -> 760
          [] mt = "e2-small" -> 1660
          [] mt = "e2-medium" -> 3320
          [] mt = "n1-standard-1" -> 4750
          [] mt = "n1-standard-2" -> 9500
          [] mt = "e2-standard-4" -> 5000
          [] mt = "e2-standard-2" -> 3000]

estimate_cost_by_machine(machine_type) == Get(mapping, machine_type, 5000)

\* machine_type_full.split("/")[-1] if machine_type_full else ""
machine_type_of(v) ==
    LET machine_type_full == Get(v, "machineType", <<>>)
    IN  IF machine_type_full = <<>> THEN "" ELSE Last(machine_type_full)

\* a billed cost of 0 read as "no billing entry"
resolve_cost_falsy(name, machine_type, bm) ==
    IF name \in DOMAIN bm /\ bm[name] # 0 THEN bm[name]
    ELSE estimate_cost_by_machine(machine_type) * 24

\* cost = billing_map.get(name); if cost is None: cost = est_hourly * 24
resolve_cost(name, machine_type, bm) ==
    IF name \in DOMAIN bm THEN bm[name]
    ELSE estimate_cost_by_machine(machine_type) * 24

\* the total built from the rounded per-instance costs
add_cost_rounded(total, c) == total + Round4(c) * 10

\* total_cost += cost
add_cost(total, c) == total + c

\* the comparison with <= in place of <
report_state_inclusive(avg, threshold) ==
    IF avg.n <= threshold * 1000 * avg.d THEN "Idle" ELSE "Active"

\* state = "Idle" if (cpu_avg_12h * 100) < cpu_threshold else "Active"
report_state(avg, threshold) ==
    IF BelowThreshold(avg, threshold) THEN "Idle" ELSE "Active"

\* a failed enumeration leaving nothing to walk
report_zones_empty(out) ==
    IF out.kind = "items" THEN out.items
    ELSE IF out.kind = "fail" THEN <<>> ELSE <<DefaultZone>>

\* the zones to walk: the listed names, the default zone when the answer
\* has no "items", the default zone when the call raised
report_zones(out) ==
    IF out.kind = "items" THEN out.items ELSE <<DefaultZone>>

\* a failed listing ending the walk (break)
report_list_failed_break(i, n) == n + 1

\* except Exception: continue
report_list_failed(i, n) == i + 1

\* the entry appended to instances_report
report_entry(v, z, avg1h, avg12h, c, threshold) ==
    [name |-> v.name,
     zone |-> z,
     status |-> Get(v, "status", "UNKNOWN"),
     labels |-> Get(v, "labels", EmptyDict),
     machine_type |-> machine_type_of(v),
     cpu_avg_1h_pct |-> Pct2(avg1h),
     cpu_avg_12h_pct |-> Pct2(avg12h),
     cost_24h |-> Round4(c),
     state |-> report_state(avg12h, threshold)]

send_report_via_sendgrid(out) ==
    IF ~out.configured THEN [sent |-> FALSE, why |-> "missing_config", status |-> 0]
    ELSE IF out.raised THEN [sent |-> FALSE, why |-> "exception", status |-> 0]
    ELSE IF out.status_code \in {200, 202}
         THEN [sent |-> TRUE, why |-> "status", status |-> out.status_code]
         ELSE [sent |-> FALSE, why |-> "status", status |-> out.status_code]

(***************************************************************************)
(* idle_shutdown/main.py                                                   *)
(***************************************************************************)
\* a failed query read as full load
get_cpu_usage_busy(out) ==
    IF ~out.ok THEN [n |-> 100000, d |-> 1]
    ELSE LET vals == PointVals(out.points)
         IN  IF vals = <<>> THEN [n |-> 100000, d |-> 1]
             ELSE Ratio(SumSeq(vals), Len(vals))

\* get_cpu_usage: the mean of all points, 0.0 without points or on failure
get_cpu_usage(out) ==
    IF ~out.ok THEN Zero
    ELSE LET vals == PointVals(out.points)
         IN  IF vals = <<>> THEN Zero ELSE Ratio(SumSeq(vals), Len(vals))

shutdown_zones(out) ==
    IF out.kind = "items" THEN out.items ELSE <<DefaultZone>>

\* except Exception: continue
shutdown_list_failed(i, n) == i + 1

\* any value of the label opting the instance in
label_excludes_absent(labels) == "auto-shutdown" \notin DOMAIN labels

\* labels.get("auto-shutdown") != "true"
label_excludes(labels) == Get(labels, "auto-shutdown", None) # "true"

\* the decision with the dry-run flag ignored
shutdown_decision_live(avg, threshold, dry) ==
    IF BelowThreshold(avg, threshold) THEN "stop" ELSE "active"

\* if cpu_pct < cpu_threshold: (if dry_run: ... else: stop) else: active
shutdown_decision(avg, threshold, dry) ==
    IF BelowThreshold(avg, threshold)
    THEN IF dry THEN "dry" ELSE "stop"
    ELSE "active"

\* the action lines, as the pieces of their f-strings
SkipLine(name) == <<"Skipping", name, "(no label)">>
DryLine(name, pct) == <<"[DRY RUN] Would stop", name, pct>>
StoppedLine(name, pct) == <<"Stopped", name, pct>>
ErrorLine(name) == <<"Error stopping", name>>
ActiveLine(name, pct) == <<name, "active", pct>>

\* a failed stop leaving no line
stop_lines_silent(ok, name, pct) ==
    IF ok THEN <<StoppedLine(name, pct)>> ELSE <<>>

\* what the try/except around instances().stop appends
stop_lines(ok, name, pct) ==
    IF ok THEN <<StoppedLine(name, pct)>> ELSE <<ErrorLine(name)>>

(***************************************************************************)
(* The run.                                                                *)
(***************************************************************************)
\* the instances of all successful listings so far, in listing order
RECURSIVE Flatten(_)
Flatten(log) ==
    IF log = <<>> THEN <<>>
    ELSE LET e == log[1]
         IN  [i \in 1..Len(e.items) |-> [zone |-> e.zone, vm |-> e.items[i]]]
             \o Flatten(Tail(log))

Discovered == Flatten(list_log)

\* how a metrics query ended
QueryClass(out) ==
    IF ~out.ok THEN "fail"
    ELSE IF PointVals(out.points) = <<>> THEN "empty" ELSE "points"

Init ==
    /\ path \in {"report", "shutdown"}
    /\ cpu_threshold \in Thresholds
    /\ dry_run \in BOOLEAN
    /\ pc = "zones"
    /\ zones = <<>>
    /\ zi = 1
    /\ zone = None
    /\ resp = <<>>
    /\ vi = 1
    /\ vm = [name |-> None]
    /\ billing_map = EmptyDict
    /\ cost = 0
    /\ total_cost = 0
    /\ cpu_avg_1h = Zero
    /\ cpu_avg_12h = Zero
    /\ instances_report = <<>>
    /\ actions = <<>>
    /\ send_result = [sent |-> FALSE, why |-> "not called", status |-> 0]
    /\ response = [status |-> 0, body |-> <<>>]
    /\ zones_failed = FALSE
    /\ billing_failed = FALSE
    /\ list_log = <<>>
    /\ queries = <<>>
    /\ stop_calls = <<>>
    /\ last_query = "none"
    /\ \E w \in Worlds(path) :
         /\ monitoring = w[1] /\ billing_export = w[2] /\ mail = w[3]
         /\ fleet = w[4]

\* cost_analyzer main, lines 110-114
RListZones ==
    /\ path = "report" /\ pc = "zones"
    /\ \E out \in ZoneOutcomes :
         /\ zones' = report_zones(out)
         /\ zones_failed' = (out.kind = "fail")
    /\ pc' = "billing"
    /\ UNCHANGED <<world, path, cpu_threshold, dry_run, zi, zone, resp, vi, vm,
                   billing_map, cost, total_cost, cpu_avg_1h, cpu_avg_12h,
                   instances_report, actions, send_result, response,
                   billing_failed, list_log, queries, stop_calls, last_query>>

\* cost_analyzer main, line 116
RQueryBilling ==
    /\ path = "report" /\ pc = "billing"
    /\ \E out \in BillingOutcomesOf(billing_export) :
         LET r == query_billing(out)
         IN  /\ billing_failed' = ~out.ok
             /\ IF r.exc
                THEN pc' = "raised" /\ billing_map' = billing_map
                ELSE pc' = "list" /\ billing_map' = r.val
    /\ UNCHANGED <<world, path, cpu_threshold, dry_run, zones, zi, zone, resp, vi, vm,
                   cost, total_cost, cpu_avg_1h, cpu_avg_12h,
                   instances_report, actions, send_result, response,
                   zones_failed, list_log, queries, stop_calls, last_query>>

\* cost_analyzer main, lines 121-127: one turn of "for zone in zones" up to
\* the inner loop
RListInstances ==
    /\ path = "report" /\ pc = "list" /\ zi <= Len(zones)
    /\ \E out \in ListOutcomes(fleet - Len(Discovered)) :
         /\ zone' = zones[zi]
         /\ list_log' = Append(list_log, [zone |-> zones[zi], kind |-> out.kind,
                                          items |-> out.items])
         /\ IF out.kind = "fail"
            THEN /\ zi' = report_list_failed(zi, Len(zones))
                 /\ UNCHANGED <<resp, vi, pc>>
            ELSE IF out.kind = "noitems"
            THEN /\ zi' = zi + 1
                 /\ UNCHANGED <<resp, vi, pc>>
            ELSE /\ resp' = out.items
                 /\ IF out.items = <<>>
                    THEN zi' = zi + 1 /\ UNCHANGED <<vi, pc>>
                    ELSE zi' = zi /\ vi' = 1 /\ pc' = "vm"
    /\ UNCHANGED <<world, path, cpu_threshold, dry_run, zones, vm,
                   billing_map, cost, total_cost, cpu_avg_1h, cpu_avg_12h,
                   instances_report, actions, send_result, response,
                   zones_failed, billing_failed, queries, stop_calls, last_query>>

\* cost_analyzer main, lines 128-135: the head of the body of
\* "for vm in resp['items']", up to the 1h metrics query
RQueryCpu1h ==
    /\ path = "report" /\ pc = "vm"
    /\ vm' = resp[vi]
    /\ \E out \in MetricOutcomesOf(monitoring) : cpu_avg_1h' = get_cpu_avg(out)
    /\ pc' = "vm12h"
    /\ UNCHANGED <<world, path, cpu_threshold, dry_run, zones, zi, zone, resp, vi,
                   billing_map, cost, total_cost, cpu_avg_12h,
                   instances_report, actions, send_result, response,
                   zones_failed, billing_failed, list_log, queries, stop_calls,
                   last_query>>

\* cost_analyzer main, lines 136-153: the 12h metrics query, the cost, the
\* state and the entry of the report
RClassify ==
    /\ path = "report" /\ pc = "vm12h"
    /\ \E out \in MetricOutcomesOf(monitoring) :
         LET avg12h == get_cpu_avg(out)
             c == resolve_cost(vm.name, machine_type_of(vm), billing_map)
         IN  /\ cpu_avg_12h' = avg12h
             /\ last_query' = QueryClass(out)
             /\ cost' = c
             /\ total_cost' = add_cost(total_cost, c)
             /\ instances_report' =
                  Append(instances_report,
                         report_entry(vm, zone, cpu_avg_1h, avg12h, c, cpu_threshold))
    /\ IF vi < Len(resp)
       THEN vi' = vi + 1 /\ pc' = "vm" /\ UNCHANGED zi
       ELSE zi' = zi + 1 /\ pc' = "list" /\ UNCHANGED vi
    /\ UNCHANGED <<world, path, cpu_threshold, dry_run, zones, zone, resp, vm,
                   billing_map, cpu_avg_1h, actions, send_result, response,
                   zones_failed, billing_failed, list_log, queries, stop_calls>>

\* the report of lines 155-160
build_report(total, instances, dry) ==
    [total_cost_24h |-> Round4(total), instances |-> instances, dry_run |-> dry]

\* cost_analyzer main, lines 155-165
RSendAndReturn ==
    /\ path = "report" /\ pc = "list" /\ zi > Len(zones)
    /\ \E out \in SendOutcomesOf(mail) : send_result' = send_report_via_sendgrid(out)
    /\ response' = [status |-> 200,
                    body |-> build_report(total_cost, instances_report, dry_run)]
    /\ pc' = "done"
    /\ UNCHANGED <<world, path, cpu_threshold, dry_run, zones, zi, zone, resp, vi, vm,
                   billing_map, cost, total_cost, cpu_avg_1h, cpu_avg_12h,
                   instances_report, actions, zones_failed, billing_failed,
                   list_log, queries, stop_calls, last_query>>

\* idle_shutdown main, lines 62-66
SListZones ==
    /\ path = "shutdown" /\ pc = "zones"
    /\ \E out \in ZoneOutcomes :
         /\ zones' = shutdown_zones(out)
         /\ zones_failed' = (out.kind = "fail")
    /\ pc' = "list"
    /\ UNCHANGED <<world, path, cpu_threshold, dry_run, zi, zone, resp, vi, vm,
                   billing_map, cost, total_cost, cpu_avg_1h, cpu_avg_12h,
                   instances_report, actions, send_result, response,
                   billing_failed, list_log, queries, stop_calls, last_query>>

\* idle_shutdown main, lines 68-76
SListInstances ==
    /\ path = "shutdown" /\ pc = "list" /\ zi <= Len(zones)
    /\ \E out \in ListOutcomes(fleet - Len(Discovered)) :
         /\ zone' = zones[zi]
         /\ list_log' = Append(list_log, [zone |-> zones[zi], kind |-> out.kind,
                                          items |-> out.items])
         /\ IF out.kind = "fail"
            THEN /\ zi' = shutdown_list_failed(zi, Len(zones))
                 /\ UNCHANGED <<resp, vi, pc>>
            ELSE IF out.kind = "noitems"
            THEN /\ zi' = zi + 1
                 /\ UNCHANGED <<resp, vi, pc>>
            ELSE /\ resp' = out.items
                 /\ IF out.items = <<>>
                    THEN zi' = zi + 1 /\ UNCHANGED <<vi, pc>>
                    ELSE zi' = zi /\ vi' = 1 /\ pc' = "vm"
    /\ UNCHANGED <<world, path, cpu_threshold, dry_run, zones, vm,
                   billing_map, cost, total_cost, cpu_avg_1h, cpu_avg_12h,
                   instances_report, actions, send_result, response,
                   zones_failed, billing_failed, queries, stop_calls, last_query>>

\* idle_shutdown main, lines 78-103: the body of "for vm in resp['items']"
SProcessVM ==
    /\ path = "shutdown" /\ pc = "vm"
    /\ LET v == resp[vi]
           name == v.name
           labels == Get(v, "labels", EmptyDict)
       IN  /\ vm' = v
           /\ IF label_excludes(labels)
              THEN /\ actions' = Append(actions, SkipLine(name))
                   /\ UNCHANGED <<cpu_avg_12h, queries, stop_calls, last_query>>
              ELSE \E out \in MetricOutcomesOf(monitoring) :
                     LET avg == get_cpu_usage(out)
                         pct == Pct2(avg)
                         decision == shutdown_decision(avg, cpu_threshold, dry_run)
                     IN  /\ cpu_avg_12h' = avg
                         /\ last_query' = QueryClass(out)
                         /\ queries' = Append(queries,
                                [zone |-> zone, name |-> name, minutes |-> 720,
                                 avg |-> avg])
                         /\ IF decision = "dry"
                            THEN /\ actions' = Append(actions, DryLine(name, pct))
                                 /\ UNCHANGED stop_calls
                            ELSE IF decision = "stop"
                            THEN \E ok \in BOOLEAN :
                                   /\ stop_calls' = Append(stop_calls,
                                        [zone |-> zone, name |-> name, ok |-> ok])
                                   /\ actions' = actions \o stop_lines(ok, name, pct)
                            ELSE /\ actions' = Append(actions, ActiveLine(name, pct))
                                 /\ UNCHANGED stop_calls
    /\ IF vi < Len(resp)
       THEN vi' = vi + 1 /\ UNCHANGED <<zi, pc>>
       ELSE zi' = zi + 1 /\ pc' = "list" /\ UNCHANGED vi
    /\ UNCHANGED <<world, path, cpu_threshold, dry_run, zones, zone, resp,
                   billing_map, cost, total_cost, cpu_avg_1h,
                   instances_report, send_result, response,
                   zones_failed, billing_failed, list_log>>

\* idle_shutdown main, line 105
SReturn ==
    /\ path = "shutdown" /\ pc = "list" /\ zi > Len(zones)
    /\ response' = [status |-> 200, body |-> [result |-> actions]]
    /\ pc' = "done"
    /\ UNCHANGED <<world, path, cpu_threshold, dry_run, zones, zi, zone, resp, vi, vm,
                   billing_map, cost, total_cost, cpu_avg_1h, cpu_avg_12h,
                   instances_report, actions, send_result, zones_failed,
                   billing_failed, list_log, queries, stop_calls, last_query>>

Next ==
    \/ RListZones
    \/ RQueryBilling
    \/ RListInstances
    \/ RQueryCpu1h
    \/ RClassify
    \/ RSendAndReturn
    \/ SListZones
    \/ SListInstances
    \/ SProcessVM
    \/ SReturn

Spec == Init /\ [][Next]_vars

(***************************************************************************)
(* Vocabulary of the properties.                                           *)
(***************************************************************************)
\* the instance carries the label auto-shutdown with the value "true"
LabelTrue(v) ==
    /\ "labels" \in DOMAIN v
    /\ "auto-shutdown" \in DOMAIN v.labels
    /\ v.labels["auto-shutdown"] = "true"

\* the reading, times 100, is strictly below the threshold
Low(avg) == avg.n < cpu_threshold * 1000 * avg.d

\* the stop commands issued for the instance nm of zone z
StopsFor(z, nm) ==
    Cardinality({i \in 1..Len(stop_calls) :
                    stop_calls[i].zone = z /\ stop_calls[i].name = nm})

\* the metrics queries issued for the instance nm of zone z
QueriesFor(z, nm) ==
    {i \in 1..Len(queries) : queries[i].zone = z /\ queries[i].name = nm}

\* the zones whose listing was requested, in request order
ListedZones == [i \in 1..Len(list_log) |-> list_log[i].zone]

\* the instance was discovered labelled "true" and its 12h reading is low
DueForStop(z, nm) ==
    /\ \E i \in 1..Len(Discovered) :
         /\ Discovered[i].zone = z
         /\ Discovered[i].vm.name = nm
         /\ LabelTrue(Discovered[i].vm)
    /\ \E q \in QueriesFor(z, nm) : Low(queries[q].avg)

\* the run is not stuck: it has returned or can take a step
Running == pc = "done" \/ ENABLED Next

\* C1: in the shutdown path an instance gets exactly one stop command in a
\* run when it was discovered with auto-shutdown="true", its 12h average
\* times 100 is strictly below the threshold and dry-run is off, and none
\* in every other case; with dry-run on no stop command is ever issued and
\* such an instance gets the DryRunStop line.
C1_StopExactlyWhenDue ==
    path = "shutdown" =>
      /\ dry_run => stop_calls = <<>>
      /\ \A z \in ZoneNames, nm \in VMNames : StopsFor(z, nm) <= 1
      /\ pc = "done" =>
           /\ \A z \in ZoneNames, nm \in VMNames :
                StopsFor(z, nm) = IF DueForStop(z, nm) /\ ~dry_run THEN 1 ELSE 0
           /\ dry_run =>
                \A i \in 1..Len(Discovered) :
                  LET d == Discovered[i]
                  IN  DueForStop(d.zone, d.vm.name) =>
                        /\ i <= Len(actions)
                        /\ actions[i][1] = "[DRY RUN] Would stop"
                        /\ actions[i][2] = d.vm.name

\* a finished live run that stopped one of two discovered instances
C1_Witness ==
    /\ path = "shutdown" /\ pc = "done" /\ ~dry_run
    /\ Len(Discovered) = 2
    /\ Len(stop_calls) = 1
    /\ Len(queries) = 2

\* C2: in the shutdown path an instance whose auto-shutdown label is absent
\* or not exactly "true" gets the Skip line and no metrics query; the
\* number of metrics queries of a run is the number of discovered instances
\* labelled "true".
C2_SkipWithoutQuery ==
    path = "shutdown" =>
      /\ \A i \in 1..Len(actions) :
           LET d == Discovered[i]
           IN  ~LabelTrue(d.vm) =>
                 /\ actions[i] = SkipLine(d.vm.name)
                 /\ QueriesFor(d.zone, d.vm.name) = {}
      /\ Len(queries) =
           Cardinality({i \in 1..Len(actions) : LabelTrue(Discovered[i].vm)})
      /\ pc = "done" =>
           Len(queries) =
             Cardinality({i \in 1..Len(Discovered) : LabelTrue(Discovered[i].vm)})

\* a finished run over an instance labelled "True" and one labelled "true"
C2_Witness ==
    /\ path = "shutdown" /\ pc = "done"
    /\ Len(queries) = 1
    /\ \E i \in 1..Len(Discovered) :
         /\ "labels" \in DOMAIN Discovered[i].vm
         /\ Discovered[i].vm.labels["auto-shutdown"] = "True"
         /\ actions[i][1] = "Skipping"

\* C3: in both paths the instance counts as idle exactly when its 12h
\* average times 100 is strictly below the threshold, on the unrounded
\* value, whatever the 1h average, the cost, the labels and the status.
C3_IdleIffStrictlyBelow ==
    /\ (path = "report" /\ instances_report # <<>> /\ pc # "vm12h") =>
         LET e == Last(instances_report)
         IN  /\ e.state \in {"Idle", "Active"}
             /\ e.state = "Idle" <=>
                  cpu_avg_12h.n < cpu_threshold * 1000 * cpu_avg_12h.d
    /\ (path = "shutdown" /\ actions # <<>> /\ LabelTrue(vm)) =>
         LET line == Last(actions)
         IN  (line[1] \in {"[DRY RUN] Would stop", "Stopped", "Error stopping"}) <=>
               cpu_avg_12h.n < cpu_threshold * 1000 * cpu_avg_12h.d

\* a reading equal to the threshold, shown as 5.0, classified Active while
\* the 1h reading is zero
C3_Witness ==
    /\ path = "report" /\ instances_report # <<>>
    /\ cpu_threshold = 5
    /\ cpu_avg_12h = [n |-> 5000, d |-> 1]
    /\ cpu_avg_1h = Zero
    /\ pc # "vm12h"
    /\ Last(instances_report).state = "Active"

\* C4: the reporting path never raises: whatever fails among zone listing,
\* instance listing, metrics, billing and mail, the run goes on until it
\* returns its report with status 200; when every source fails the report
\* has total_cost_24h = 0 and no instances.
C4_ReportNeverRaises ==
    path = "report" =>
      /\ pc # "raised"
      /\ Running
      /\ pc = "done" =>
           /\ response.status = 200
           /\ response.body.instances = instances_report
           /\ ( /\ zones_failed
                /\ billing_failed
                /\ \A i \in 1..Len(list_log) : list_log[i].kind = "fail" )
              => /\ response.body.total_cost_24h = 0
                 /\ response.body.instances = <<>>

\* a finished run in which every call failed
C4_Witness ==
    /\ path = "report" /\ pc = "done"
    /\ zones_failed /\ billing_failed
    /\ monitoring = "down"
    /\ Len(list_log) = 1 /\ list_log[1].kind = "fail"
    /\ send_result.why = "exception"

\* C5: in the reporting path the report lists, by (name, zone), exactly the
\* instances of the successful listings, zone by zone in enumeration order
\* and in listing order inside a zone; a zone whose listing fails adds
\* nothing and the zones after it are still listed.
C5_ReportIsTheDiscoveredFleet ==
    path = "report" =>
      /\ Len(instances_report) <= Len(Discovered)
      /\ \A i \in 1..Len(instances_report) :
           /\ instances_report[i].name = Discovered[i].vm.name
           /\ instances_report[i].zone = Discovered[i].zone
      /\ pc = "done" =>
           /\ ListedZones = zones
           /\ Len(response.body.instances) = Len(Discovered)
           /\ \A i \in 1..Len(Discovered) :
                /\ response.body.instances[i].name = Discovered[i].vm.name
                /\ response.body.instances[i].zone = Discovered[i].zone

\* the first zone's listing failed and the second zone's two instances
\* are reported
C5_Witness ==
    /\ path = "report" /\ pc = "done"
    /\ Len(list_log) = 2
    /\ list_log[1].kind = "fail"
    /\ Len(list_log[2].items) = 2
    /\ Len(response.body.instances) = 2

\* the sum of the cost_24h fields of the reported instances
RECURSIVE SumCost24h(_)
SumCost24h(entries) ==
    IF entries = <<>> THEN 0
    ELSE entries[1].cost_24h + SumCost24h(Tail(entries))

\* the unrounded cost of a reported instance: billed, else 24 hours at the
\* rate of its machine type
ExactCost(e) ==
    IF e.name \in DOMAIN billing_map THEN billing_map[e.name]
    ELSE (IF e.machine_type \in DOMAIN mapping
          THEN mapping[e.machine_type] ELSE 5000) * 24

RECURSIVE SumExactCost(_)
SumExactCost(entries) ==
    IF entries = <<>> THEN 0
    ELSE ExactCost(entries[1]) + SumExactCost(Tail(entries))

\* C6 as stated: total_cost_24h is the exact sum of the cost_24h values of
\* the reported instances.
C6_TotalIsSumOfReportedCosts ==
    (path = "report" /\ pc = "done") =>
      response.body.total_cost_24h = SumCost24h(response.body.instances)

\* C6, amended: total_cost_24h is the sum of the unrounded costs of the
\* reported instances (billed, else estimated), rounded once to 4 places.
C6_TotalIsRoundedExactSum ==
    (path = "report" /\ pc = "done") =>
      response.body.total_cost_24h =
        Round4(SumExactCost(response.body.instances))

\* two billed instances of 0.00006 each: every cost_24h is 0.0001 and the
\* total is 0.0001
C6_Witness ==
    /\ path = "report" /\ pc = "done"
    /\ Len(response.body.instances) = 2
    /\ \A i \in 1..2 : ExactCost(response.body.instances[i]) = 6
    /\ response.body.total_cost_24h = 1
    /\ SumCost24h(response.body.instances) = 2

\* C7: in the shutdown path with dry-run off a failed stop is recorded as
\* the Error line of that instance and the run goes on: it returns one
\* action line per discovered instance, in discovery order.
C7_FailedStopDoesNotAbort ==
    path = "shutdown" =>
      /\ pc # "raised"
      /\ Running
      /\ Len(actions) <= Len(Discovered)
      /\ \A i \in 1..Len(actions) :
           LET d == Discovered[i]
           IN  (\E k \in 1..Len(stop_calls) :
                  /\ stop_calls[k].zone = d.zone
                  /\ stop_calls[k].name = d.vm.name
                  /\ ~stop_calls[k].ok)
               => actions[i] = ErrorLine(d.vm.name)
      /\ pc = "done" =>
           /\ ListedZones = zones
           /\ response.body.result = actions
           /\ Len(actions) = Len(Discovered)
           /\ \A i \in 1..Len(Discovered) :
                \/ actions[i][1] = Discovered[i].vm.name
                \/ actions[i][2] = Discovered[i].vm.name

\* the stop of the first instance failed and the instance of the next
\* zone was still stopped
C7_Witness ==
    /\ path = "shutdown" /\ pc = "done" /\ ~dry_run
    /\ Len(zones) = 2
    /\ Len(stop_calls) = 2
    /\ ~stop_calls[1].ok /\ stop_calls[2].ok
    /\ stop_calls[1].zone # stop_calls[2].zone
    /\ Len(actions) = 2
    /\ actions[1][1] = "Error stopping"
    /\ actions[2][1] = "Stopped"

\* C8: in both paths a failed zone enumeration makes the run walk exactly
\* one zone, us-central1-a, and request that zone's instance listing.
C8_ZoneFallback ==
    zones_failed =>
      /\ pc # "raised"
      /\ zones = <<"us-central1-a">>
      /\ ListedZones \in {<<>>, <<"us-central1-a">>}
      /\ pc = "done" => ListedZones = <<"us-central1-a">>

\* a finished shutdown run after a failed enumeration that found an
\* instance in the default zone
C8_Witness ==
    /\ path = "shutdown" /\ pc = "done" /\ zones_failed
    /\ Len(list_log) = 1
    /\ list_log[1].zone = "us-central1-a"
    /\ list_log[1].kind = "items"
    /\ Len(actions) = 1

\* C9: in the reporting path the cost of an instance is the billing value
\* when the billing map holds its name, also when that value is 0 and
\* whatever the machine type; otherwise it is 24 times the hourly rate of
\* the machine type, 0.05 for a type the table does not hold.
C9_CostIsBilledOrEstimated ==
    (path = "report" /\ instances_report # <<>> /\ pc # "vm12h") =>
      LET e == Last(instances_report)
          full == IF "machineType" \in DOMAIN vm THEN vm.machineType ELSE <<>>
          mt == IF full = <<>> THEN "" ELSE full[Len(full)]
          rate == IF mt \in DOMAIN mapping THEN mapping[mt] ELSE 5000
      IN  /\ e.machine_type = mt
          /\ cost = IF vm.name \in DOMAIN billing_map
                    THEN billing_map[vm.name]
                    ELSE rate * 24
          /\ e.cost_24h = Round4(cost)

\* an instance of a known machine type billed at 0
C9_Witness ==
    /\ path = "report" /\ instances_report # <<>> /\ pc # "vm12h"
    /\ vm.name = "web-1"
    /\ "web-1" \in DOMAIN billing_map
    /\ billing_map["web-1"] = 0
    /\ Last(instances_report).machine_type = "e2-medium"
    /\ cost = 0

\* C10: a metrics query that fails or yields no point reads as 0.0, so for
\* a threshold above 0 the reporting path says Idle, and the shutdown path
\* gives a labelled instance the DryRunStop line under dry-run and issues
\* its stop command otherwise, whatever its status.
C10_NoDataReadsAsIdle ==
    last_query \in {"fail", "empty"} =>
      /\ cpu_avg_12h = Zero
      /\ (path = "report" /\ instances_report # <<>> /\ cpu_threshold > 0) =>
           Last(instances_report).state = "Idle"
      /\ (path = "shutdown" /\ actions # <<>> /\ LabelTrue(vm)
            /\ cpu_threshold > 0) =>
           IF dry_run
           THEN Last(actions) = DryLine(vm.name, 0)
           ELSE /\ stop_calls # <<>>
                /\ Last(stop_calls).zone = Discovered[Len(actions)].zone
                /\ Last(stop_calls).name = vm.name
                /\ \/ Last(actions) = StoppedLine(vm.name, 0)
                   \/ Last(actions) = ErrorLine(vm.name)

\* a TERMINATED instance whose metrics query failed is sent a stop command
C10_Witness ==
    /\ path = "shutdown" /\ ~dry_run /\ cpu_threshold > 0
    /\ last_query = "fail"
    /\ actions # <<>>
    /\ vm.name = "web-2" /\ vm.status = "TERMINATED"
    /\ Last(stop_calls).name = "web-2"
    /\ Last(actions) = StoppedLine("web-2", 0)

====
